---- MODULE Spec2Model ----
(***************************************************************************)
(* Model of src/hapi_server.py: the Node class, the Storage container      *)
(* (add / delete / move / query) with its cached pre-order list, and the   *)
(* request loop of main.                                                   *)
(*                                                                         *)
(* Node objects are represented by their id; the fields of the Node with   *)
(* id n are name[n], parent[n], children[n], children_by_id[n], depth[n].  *)
(* Names are represented by integers that compare as the strings do.       *)
(* Python lists are TLA+ sequences; the helper operators below take and    *)
(* return Python's 0-based indices.                                        *)
(***************************************************************************)
EXTENDS Integers, Sequences, FiniteSets, TLC

(* Bounds: the ids and names callers may pass, and the number of calls in  *)
(* one run.                                                                *)
MaxId == 5
NumNames == 2
MaxCalls == 9

(* Bounds of the request loop with queries: the number of request lines,   *)
(* the ids a query may name, the length of its lists, its depth arguments. *)
MaxLines == 5
MaxQueryId == 3
MaxList == 2
MaxDepthArg == 2

Ids == 1..MaxId
Names == 1..NumNames
None == 0

VARIABLES nodes, root, preorder, name, parent, children, children_by_id, depth, call, ret, ncalls, out

vars == <<nodes, root, preorder, name, parent, children, children_by_id, depth, call, ret, ncalls, out>>

StoreVars == <<nodes, root, preorder, name, parent, children, children_by_id, depth>>

(* The Storage object together with the Node objects it owns. *)
store ==
  [nodes |-> nodes, root |-> root, preorder |-> preorder, name |-> name,
   parent |-> parent, children |-> children,
   children_by_id |-> children_by_id, depth |-> depth]

----------------------------------------------------------------------------
(* Python list primitives *)

Min(a, b) == IF a < b THEN a ELSE b

Max(a, b) == IF a > b THEN a ELSE b

(* a slice bound as Python normalises it for a list of length n *)
NormIndex(i, n) == IF i < 0 THEN Max(i + n, 0) ELSE Min(i, n)

(* s[i:j] *)
Slice(s, i, j) ==
  LET lo == NormIndex(i, Len(s))
      hi == NormIndex(j, Len(s))
  IN  IF hi <= lo THEN <<>> ELSE SubSeq(s, lo + 1, hi)

(* s[i:j] = x *)
SetSlice(s, i, j, x) ==
  LET lo == NormIndex(i, Len(s))
      hi == Max(NormIndex(j, Len(s)), lo)
  IN  SubSeq(s, 1, lo) \o x \o SubSeq(s, hi + 1, Len(s))

(* s.index(x), -1 standing for ValueError *)
ListIndex(s, x) ==
  IF \E i \in 1..Len(s) : s[i] = x
  THEN (CHOOSE i \in 1..Len(s) : s[i] = x /\ \A j \in 1..(i - 1) : s[j] # x) - 1
  ELSE -1

(* s.insert(i, x) *)
ListInsert(s, i, x) == SetSlice(s, i, i, <<x>>)

(* s.remove(x), for x in s *)
ListRemove(s, x) ==
  LET i == ListIndex(s, x)
  IN  SubSeq(s, 1, i) \o SubSeq(s, i + 2, Len(s))

----------------------------------------------------------------------------
(* Node *)

(* Node.__init__ *)
NewNode(S, nid, nm) ==
  [S EXCEPT !.name[nid] = nm, !.parent[nid] = None, !.children[nid] = <<>>,
            !.children_by_id[nid] = {}, !.depth[nid] = 0]

(* a Node that is no longer referenced from the store *)
Dropped(S, nid) ==
  [S EXCEPT !.name[nid] = None, !.parent[nid] = None, !.children[nid] = <<>>,
            !.children_by_id[nid] = {}, !.depth[nid] = 0]

(* equality left at object identity *)
NodeEq_ByIdentity(S, m, n) == m = n

(* Node.__eq__ *)
NodeEq(S, m, n) == S.name[m] = S.name[n]

(* Node.__lt__ *)
NodeLt(S, m, n) == S.name[m] < S.name[n]

(* Node.is_leaf *)
is_leaf(S, n) == S.children[n] = <<>>

(* node in lst, by __eq__ *)
Contains(S, lst, n) == \E i \in 1..Len(lst) : NodeEq(S, lst[i], n)

(* lst.index(node), by __eq__ *)
IndexOfNode(S, lst, n) ==
  (CHOOSE i \in 1..Len(lst) :
      NodeEq(S, lst[i], n) /\ \A j \in 1..(i - 1) : ~NodeEq(S, lst[j], n)) - 1

(* lst.remove(node), by __eq__ *)
RemoveNode(S, lst, n) ==
  LET i == IndexOfNode(S, lst, n)
  IN  SubSeq(lst, 1, i) \o SubSeq(lst, i + 2, Len(lst))

RECURSIVE SortedInsert(_, _, _)
(* one step of a stable insertion sort by __lt__ *)
SortedInsert(S, lst, n) ==
  IF lst = <<>> THEN <<n>>
  ELSE IF NodeLt(S, n, lst[Len(lst)])
       THEN Append(SortedInsert(S, SubSeq(lst, 1, Len(lst) - 1), n), lst[Len(lst)])
       ELSE Append(lst, n)

RECURSIVE SortNodes(_, _)
(* lst.sort() *)
SortNodes(S, lst) ==
  IF lst = <<>> THEN <<>>
  ELSE SortedInsert(S, SortNodes(S, SubSeq(lst, 1, Len(lst) - 1)), lst[Len(lst)])

RECURSIVE last_preorder_child(_, _)
(* Node.last_preorder_child *)
last_preorder_child(S, n) ==
  IF S.children[n] = <<>> THEN n
  ELSE last_preorder_child(S, S.children[n][Len(S.children[n])])

(* Node.preorder_predecessor *)
preorder_predecessor(S, n) ==
  IF S.parent[n] = None THEN None
  ELSE LET sibs == S.children[S.parent[n]]
           idx == IndexOfNode(S, sibs, n)
       IN  IF idx = 0 THEN S.parent[n]
           ELSE last_preorder_child(S, sibs[idx])

(* the depth of n alone is set, its subtree is left as it was *)
set_depth_Shallow(dp, ch, n, d) == [dp EXCEPT ![n] = d]

RECURSIVE set_depth(_, _, _, _)
RECURSIVE set_depth_from(_, _, _, _, _)
(* Node.set_depth: the depth map after n.set_depth(d) *)
set_depth(dp, ch, n, d) ==
  set_depth_from([dp EXCEPT ![n] = d], ch, n, d, 1)

(* the loop over n's children, from the i-th on *)
set_depth_from(dp, ch, n, d, i) ==
  IF i > Len(ch[n]) THEN dp
  ELSE set_depth_from(set_depth(dp, ch, ch[n][i], d + 1), ch, n, d, i + 1)

(* the child is inserted but its parent link is not set *)
add_child_NoParentLink(S, p, n) ==
  IF \E i \in 1..Len(S.children[p]) : S.name[S.children[p][i]] = S.name[n]
  THEN [ok |-> FALSE, st |-> S]
  ELSE [ok |-> TRUE,
        st |-> [S EXCEPT !.children[p] = SortNodes(S, Append(@, n)),
                         !.children_by_id[p] = @ \cup {n},
                         !.depth[n] = S.depth[p] + 1]]

(* Node.add_child, called on p with node n *)
add_child(S, p, n) ==
  IF Contains(S, S.children[p], n)
  THEN [ok |-> FALSE, st |-> S]
  ELSE LET S1 == [S EXCEPT !.children[p] = SortNodes(S, Append(@, n)),
                           !.children_by_id[p] = @ \cup {n},
                           !.parent[n] = p]
       IN  [ok |-> TRUE,
            st |-> [S1 EXCEPT !.depth = set_depth(S1.depth, S1.children, n, S1.depth[p] + 1)]]

(* the node is dropped from _children_by_id but stays in the children list *)
remove_child_KeepInList(S, p, nid, force) ==
  IF nid \notin S.children_by_id[p]
  THEN [ok |-> FALSE, st |-> S]
  ELSE IF ~is_leaf(S, nid) /\ ~force
       THEN [ok |-> FALSE, st |-> S]
       ELSE [ok |-> TRUE,
             st |-> [S EXCEPT !.children_by_id[p] = @ \ {nid}]]

(* the id is popped from _children_by_id before the leaf test *)
remove_child_PopFirst(S, p, nid, force) ==
  IF nid \notin S.children_by_id[p]
  THEN [ok |-> FALSE, st |-> S]
  ELSE IF ~is_leaf(S, nid) /\ ~force
       THEN [ok |-> FALSE, st |-> [S EXCEPT !.children_by_id[p] = @ \ {nid}]]
       ELSE [ok |-> TRUE,
             st |-> [S EXCEPT !.children_by_id[p] = @ \ {nid},
                              !.children[p] = RemoveNode(S, @, nid)]]

(* Node.remove_child, called on p *)
remove_child(S, p, nid, force) ==
  IF nid \notin S.children_by_id[p]
  THEN [ok |-> FALSE, st |-> S]
  ELSE IF ~is_leaf(S, nid) /\ ~force
       THEN [ok |-> FALSE, st |-> S]
       ELSE [ok |-> TRUE,
             st |-> [S EXCEPT !.children_by_id[p] = @ \ {nid},
                              !.children[p] = RemoveNode(S, @, nid)]]

----------------------------------------------------------------------------
(* Storage *)

Result(r, S) == [ret |-> r, st |-> S]

(* the store is taken to be empty whatever it holds *)
has_nodes_Never(S) == FALSE

(* the truth value of self._nodes *)
has_nodes(S) == S.nodes # {}

(* Storage.add(Node(nid, nm), par) *)
Storage_add(S, nid, nm, par) ==
  IF nid \in S.nodes THEN Result("false", S)
  ELSE IF par = None
  THEN IF has_nodes(S) THEN Result("false", S)
       ELSE LET S1 == NewNode(S, nid, nm)
            IN  Result("true",
                  [S1 EXCEPT !.nodes = @ \cup {nid}, !.root = nid,
                             !.depth = set_depth(S1.depth, S1.children, nid, 0),
                             !.preorder = Append(@, nid)])
  ELSE IF par \notin S.nodes THEN Result("false", S)
  ELSE LET r == add_child(NewNode(S, nid, nm), par, nid)
       IN  IF ~r.ok THEN Result("false", Dropped(r.st, nid))
           ELSE LET S2 == [r.st EXCEPT !.nodes = @ \cup {nid}]
                    pred == preorder_predecessor(S2, nid)
                    pi == ListIndex(S2.preorder, pred)
                IN  IF pi < 0 THEN Result("error", S2)
                    ELSE Result("true",
                           [S2 EXCEPT !.preorder = ListInsert(@, pi + 1, nid)])

(* Storage.delete(nid) *)
Storage_delete(S, nid) ==
  IF nid \notin S.nodes THEN Result("false", S)
  ELSE LET par == S.parent[nid]
           r == remove_child(S, par, nid, FALSE)
       IN  IF par # None /\ r.ok
           THEN LET S1 == [r.st EXCEPT !.nodes = @ \ {nid}]
                IN  IF ListIndex(S1.preorder, nid) < 0
                    THEN Result("error", S1)
                    ELSE Result("true",
                           Dropped([S1 EXCEPT !.preorder = ListRemove(@, nid)], nid))
           ELSE IF par = None /\ Cardinality(S.nodes) = 1
           THEN Result("true", Dropped([S EXCEPT !.nodes = {}, !.preorder = <<>>], nid))
           ELSE Result("false", IF par # None THEN r.st ELSE S)

RECURSIVE IsAncestor(_, _, _)
(* the while loop of Storage.move: nid is item or one of item's ancestors *)
IsAncestor(S, item, nid) ==
  IF item = None THEN FALSE
  ELSE IF item = nid THEN TRUE
  ELSE IsAncestor(S, S.parent[item], nid)

(* the in-place swap of the adjacent spans [a, b) and [b, c) *)
Rotate(po, a, b, c) ==
  LET span1 == b - a
      span2 == c - b
  IN  IF span1 < span2
      THEN LET tmp == Slice(po, a, b)
               p1 == SetSlice(po, a, a + span2, Slice(po, b, c))
           IN  SetSlice(p1, c - span1, c, tmp)
      ELSE LET tmp == Slice(po, b, c)
               p1 == SetSlice(po, a + span2, c, Slice(po, a, b))
           IN  SetSlice(p1, a, a + span2, tmp)

(* the update of the cached pre-order list at the end of Storage.move *)
Resplice(S, nid) ==
  LET pred == preorder_predecessor(S, nid)
      pi == ListIndex(S.preorder, pred)
      new_preorder_position == pi + 1
  IN  IF pi < 0 THEN Result("error", S)
      ELSE IF is_leaf(S, nid)
      THEN IF ListIndex(S.preorder, nid) < 0 THEN Result("error", S)
           ELSE Result("true",
                  [S EXCEPT !.preorder =
                     ListInsert(ListRemove(@, nid), new_preorder_position, nid)])
      ELSE LET node == last_preorder_child(S, nid)
               range_start == ListIndex(S.preorder, nid)
               li == ListIndex(S.preorder, node)
               range_size == li - range_start + 1
           IN  IF range_start < 0 \/ li < 0 THEN Result("error", S)
               ELSE IF new_preorder_position > range_start + range_size
               THEN Result("true",
                      [S EXCEPT !.preorder =
                         Rotate(@, range_start, range_start + range_size,
                                new_preorder_position)])
               ELSE IF new_preorder_position < range_start
               THEN Result("true",
                      [S EXCEPT !.preorder =
                         Rotate(@, new_preorder_position, range_start,
                                range_start + range_size)])
               ELSE Result("error", S)  \* a, b, c are unbound: UnboundLocalError

(* Storage.move(nid, to) *)
Storage_move(S, nid, to) ==
  IF nid \notin S.nodes \/ to \notin S.nodes \/ nid = to THEN Result("false", S)
  ELSE IF S.parent[nid] = None \/ S.parent[nid] = to THEN Result("false", S)
  ELSE IF IsAncestor(S, S.parent[to], nid) THEN Result("false", S)
  ELSE LET old_parent == S.parent[nid]
           r == add_child(S, to, nid)
       IN  IF ~r.ok THEN Result("false", r.st)
           ELSE Resplice(remove_child(r.st, old_parent, nid, TRUE).st, nid)

(* list(OrderedDict.fromkeys(lst)): first occurrences, in order *)
Uniq(lst) ==
  LET firsts == {i \in 1..Len(lst) : \A j \in 1..(i - 1) : lst[j] # lst[i]}
      RECURSIVE Pick(_)
      Pick(i) == IF i > Len(lst) THEN <<>>
                 ELSE (IF i \in firsts THEN <<lst[i]>> ELSE <<>>) \o Pick(i + 1)
  IN  Pick(1)

(* x in lst *)
InList(lst, x) == \E i \in 1..Len(lst) : lst[i] = x

(* self._nodes[nid] raises KeyError for some nid of lst *)
HasUnknown(S, lst) == \E i \in 1..Len(lst) : lst[i] \notin S.nodes

QueryResult(r, lst) == [ret |-> r, nodes |-> lst]

(* the test at the top of Storage.query: nothing stored, or both depths    *)
(* truthy and in the wrong order                                           *)
returns_at_once(S, min_depth, max_depth) ==
  S.nodes = {} \/ (min_depth # 0 /\ max_depth # 0 /\ max_depth < min_depth)

(* dmin <= depth <= dmax *)
in_window(S, n, dmin, dmax) == dmin <= S.depth[n] /\ S.depth[n] <= dmax

(* query_roots, but falling back to the global root when no listed id is   *)
(* stored                                                                  *)
query_roots_DefaultsToRoot(S, roots) ==
  LET known == SelectSeq(Uniq(roots), LAMBDA nid : nid \in S.nodes)
  IN  IF known # <<>> THEN known ELSE <<S.root>>

(* the roots the loop of Storage.query runs over *)
query_roots(S, roots) ==
  IF roots # <<>>
  THEN SelectSeq(Uniq(roots), LAMBDA nid : nid \in S.nodes)
  ELSE <<S.root>>

(* one pass of the loop of Storage.query: the filtered subtree of rt *)
query_subtree(S, rt, min_depth, max_depth) ==
  LET dmin == min_depth + S.depth[rt]
      dmax == max_depth + S.depth[rt]
      start == ListIndex(S.preorder, rt)
      last == ListIndex(S.preorder, last_preorder_child(S, rt))
      span == IF rt = S.root THEN S.preorder
              ELSE Slice(S.preorder, start, last + 1)
  IN  IF rt # S.root /\ (start < 0 \/ last < 0) THEN QueryResult("error", <<>>)
      ELSE IF HasUnknown(S, span) THEN QueryResult("error", <<>>)
      ELSE QueryResult("nodes",
             SelectSeq(span, LAMBDA nid : in_window(S, nid, dmin, dmax)))

RECURSIVE query_loop(_, _, _, _, _)
(* the loop of Storage.query over roots, from the i-th on *)
query_loop(S, rts, i, min_depth, max_depth) ==
  IF i > Len(rts) THEN QueryResult("nodes", <<>>)
  ELSE LET sub == query_subtree(S, rts[i], min_depth, max_depth)
           rest == query_loop(S, rts, i + 1, min_depth, max_depth)
       IN  IF sub.ret = "error" \/ rest.ret = "error" THEN QueryResult("error", <<>>)
           ELSE QueryResult("nodes", sub.nodes \o rest.nodes)

(* Storage.query; an omitted or empty list is <<>>, an omitted or zero     *)
(* depth is 0 (the code tests both for truth only)                         *)
Storage_query(S, ids, names, roots, min_depth, max_depth) ==
  IF returns_at_once(S, min_depth, max_depth) THEN QueryResult("nodes", <<>>)
  ELSE LET mn == IF min_depth = 0 THEN 0 ELSE min_depth
           mx == IF max_depth = 0 THEN Len(S.preorder) ELSE max_depth
           nms == Uniq(names)
       IN  IF ids # <<>>
           THEN LET sel == SelectSeq(S.preorder, LAMBDA nid : InList(Uniq(ids), nid))
                IN  IF HasUnknown(S, sel) THEN QueryResult("error", <<>>)
                    ELSE IF nms = <<>> THEN QueryResult("nodes", sel)
                    ELSE QueryResult("nodes",
                           SelectSeq(sel, LAMBDA nid : InList(nms, S.name[nid])))
           ELSE IF nms # <<>>
           THEN IF HasUnknown(S, S.preorder) THEN QueryResult("error", <<>>)
                ELSE QueryResult("nodes",
                       SelectSeq(S.preorder, LAMBDA nid : InList(nms, S.name[nid])))
           ELSE query_loop(S, query_roots(S, roots), 1, mn, mx)

(* the record the dispatcher writes for a node *)
NodeRecord(S, n) ==
  [id |-> n, name |-> S.name[n],
   parent_id |-> IF S.parent[n] # None THEN S.parent[n] ELSE ""]

(* query, but handing the two depths to Storage.query in the other order *)
query_SwappedDepths(S, ids, names, root_ids, min_depth, max_depth) ==
  LET r == Storage_query(S, ids, names, root_ids, max_depth, min_depth)
  IN  IF r.ret = "error" THEN r
      ELSE QueryResult("nodes", [i \in 1..Len(r.nodes) |-> NodeRecord(S, r.nodes[i])])

(* query(stg, body) *)
query(S, ids, names, root_ids, min_depth, max_depth) ==
  LET r == Storage_query(S, ids, names, root_ids, min_depth, max_depth)
  IN  IF r.ret = "error" THEN r
      ELSE QueryResult("nodes", [i \in 1..Len(r.nodes) |-> NodeRecord(S, r.nodes[i])])

----------------------------------------------------------------------------
(* The state machine: one request per step.  An uncaught exception ends    *)
(* the process, so nothing follows ret = "error"; ret is the value written *)
(* under "ok", out the records written under "nodes".                      *)

Init ==
  /\ nodes = {}
  /\ root = None
  /\ preorder = <<>>
  /\ name = [n \in Ids |-> None]
  /\ parent = [n \in Ids |-> None]
  /\ children = [n \in Ids |-> <<>>]
  /\ children_by_id = [n \in Ids |-> {}]
  /\ depth = [n \in Ids |-> 0]
  /\ call = [op |-> "none", id |-> None, arg |-> None]
  /\ ret = "none"
  /\ ncalls = 0
  /\ out = <<>>

Return(r) ==
  /\ nodes' = r.st.nodes
  /\ root' = r.st.root
  /\ preorder' = r.st.preorder
  /\ name' = r.st.name
  /\ parent' = r.st.parent
  /\ children' = r.st.children
  /\ children_by_id' = r.st.children_by_id
  /\ depth' = r.st.depth
  /\ ret' = r.ret
  /\ ncalls' = ncalls + 1
  /\ out' = <<>>

(* Ids are only ever compared for equality (dict keys, ==), so a node that  *)
(* is not in the store is admitted under one representative unused id.     *)
FreshIds == IF Ids \ nodes = {} THEN {}
            ELSE {CHOOSE n \in Ids \ nodes : \A m \in Ids \ nodes : n <= m}

(* the process is alive, and the run has calls left *)
Running == ret # "error" /\ call.op # "eof" /\ ncalls < MaxCalls

Add(nid, nm, par) ==
  /\ Running
  /\ call' = [op |-> "add", id |-> nid, arg |-> par]
  /\ Return(Storage_add(store, nid, nm, par))

Delete(nid) ==
  /\ Running
  /\ call' = [op |-> "delete", id |-> nid, arg |-> None]
  /\ Return(Storage_delete(store, nid))

Move(nid, to) ==
  /\ Running
  /\ call' = [op |-> "move", id |-> nid, arg |-> to]
  /\ Return(Storage_move(store, nid, to))

Next ==
  \/ \E nid \in nodes \cup FreshIds, nm \in Names, par \in Ids \cup {None} : Add(nid, nm, par)
  \/ \E nid \in Ids : Delete(nid)
  \/ \E nid \in Ids, to \in Ids : Move(nid, to)

Spec == Init /\ [][Next]_vars

----------------------------------------------------------------------------
(* The request loop with every kind of line main can read.                 *)

RECURSIVE ListsUpTo(_, _)
(* the lists over set of length at most n *)
ListsUpTo(set, n) ==
  IF n = 0 THEN {<<>>}
  ELSE LET shorter == ListsUpTo(set, n - 1)
       IN  shorter \cup {Append(l, x) : l \in shorter, x \in set}

IdLists == ListsUpTo(1..MaxQueryId, MaxList)
NameLists == ListsUpTo(Names, 1)
DepthArgs == 0..MaxDepthArg

(* the arguments Storage.query is documented to ignore once ids or names   *)
(* are given are drawn from a few values only                              *)
IgnoredRoots == ListsUpTo({MaxQueryId - 1}, 1)
IgnoredDepths ==
  {d \in DepthArgs \X DepthArgs : d[1] = d[2] \/ (d[2] = 1 /\ d[1] > d[2])}

(* a line {"query": {...}} *)
Query(ids, names, root_ids, min_depth, max_depth) ==
  /\ Running
  /\ call' = [op |-> "query", ids |-> ids, names |-> names, roots |-> root_ids,
              min_depth |-> min_depth, max_depth |-> max_depth]
  /\ LET r == query(store, ids, names, root_ids, min_depth, max_depth)
     IN  /\ ret' = r.ret
         /\ out' = r.nodes
  /\ ncalls' = ncalls + 1
  /\ UNCHANGED StoreVars

(* a line that does not parse, or an object without exactly one key:       *)
(* reported on stderr and skipped                                          *)
Malformed ==
  /\ Running
  /\ call' = [op |-> "malformed"]
  /\ ret' = "none"
  /\ out' = <<>>
  /\ ncalls' = ncalls + 1
  /\ UNCHANGED StoreVars

(* a line whose single key names nothing callable in globals(): KeyError   *)
UnknownOp ==
  /\ Running
  /\ call' = [op |-> "unknown"]
  /\ ret' = "error"
  /\ out' = <<>>
  /\ ncalls' = ncalls + 1
  /\ UNCHANGED StoreVars

(* readline returns the empty string: main returns *)
EndOfInput ==
  /\ Running
  /\ call' = [op |-> "eof"]
  /\ ret' = "none"
  /\ out' = <<>>
  /\ ncalls' = ncalls
  /\ UNCHANGED StoreVars

NextLine ==
  \/ Next
  \/ \E ids \in IdLists \ {<<>>}, names \in NameLists,
        root_ids \in IgnoredRoots, d \in IgnoredDepths :
        Query(ids, names, root_ids, d[1], d[2])
  \/ \E names \in NameLists \ {<<>>}, root_ids \in IgnoredRoots, d \in IgnoredDepths :
        Query(<<>>, names, root_ids, d[1], d[2])
  \/ \E root_ids \in IdLists, min_depth \in DepthArgs, max_depth \in DepthArgs :
        Query(<<>>, <<>>, root_ids, min_depth, max_depth)
  \/ Malformed
  \/ UnknownOp
  \/ EndOfInput

NextMain == ncalls < MaxLines /\ NextLine

SpecMain == Init /\ [][NextMain]_vars

----------------------------------------------------------------------------
(* Reference definitions for the properties, computed from the live tree   *)
(* alone.                                                                  *)

RECURSIVE Walk(_)
RECURSIVE WalkFrom(_, _)
(* the full recursive pre-order walk from n: n, then each child's walk *)
Walk(n) == <<n>> \o WalkFrom(n, 1)

WalkFrom(n, i) ==
  IF i > Len(children[n]) THEN <<>>
  ELSE Walk(children[n][i]) \o WalkFrom(n, i + 1)

Range(s) == {s[i] : i \in 1..Len(s)}

(* n and everything below it *)
Subtree(n) == Range(Walk(n))

(* s without every occurrence of x *)
Without(s, x) == SelectSeq(s, LAMBDA y : y # x)

RECURSIVE ReachesRoot(_, _)
(* following parent from n reaches the root without revisiting a node *)
ReachesRoot(n, seen) ==
  IF parent[n] = None THEN n = root
  ELSE /\ parent[n] \in nodes
       /\ parent[n] \notin seen
       /\ ReachesRoot(parent[n], seen \cup {parent[n]})

(* the call just made, and how it ended *)
Called(o) == call.op = o

Returned(o, r) == call.op = o /\ ret = r

----------------------------------------------------------------------------
(* C1: after any sequence of add, delete and move calls the cached list    *)
(* _preorder is exactly the pre-order walk of the live tree from the root  *)
(* (empty for an empty store).                                             *)
C1_PreorderIsWalk ==
  preorder = IF nodes = {} THEN <<>> ELSE Walk(root)

(* C2: every add, delete and move call ends by returning true or false,    *)
(* never in an uncaught error.                                             *)
C2_NoUncaughtError == ret # "error"

(* C3: a call that returns false leaves the id index, the root, _preorder  *)
(* and every node's parent, children and depth as they were.               *)
C3_FailureChangesNothing ==
  [][ret' = "false" => UNCHANGED StoreVars]_vars

(* a move has just failed only because the new parent already has a child  *)
(* with the target's name; the target is still attached to its old parent  *)
C3_Witness ==
  /\ Returned("move", "false")
  /\ call.id \in nodes /\ call.arg \in nodes /\ call.id # call.arg
  /\ parent[call.id] \notin {None, call.arg}
  /\ call.arg \notin Subtree(call.id)
  /\ \E i \in 1..Len(children[call.arg]) : name[children[call.arg][i]] = name[call.id]
  /\ call.id \in Range(children[parent[call.id]])

(* C4: move returns false and changes nothing when the new parent is the   *)
(* target, its current parent or one of its descendants, or the target is  *)
(* the root; and the parent links always lead from every stored node to    *)
(* the root without revisiting a node.                                     *)
IllegalMove(nid, to) ==
  /\ nid \in nodes
  /\ \/ to = nid
     \/ to = parent[nid]
     \/ to \in Subtree(nid)
     \/ parent[nid] = None

ParentsFormTree == \A n \in nodes : ReachesRoot(n, {n})

C4_NoCycle ==
  /\ []ParentsFormTree
  /\ [][(call'.op = "move" /\ IllegalMove(call'.id, call'.arg))
          => (ret' = "false" /\ UNCHANGED StoreVars)]_vars

(* a move under a proper descendant, two levels down, has just been refused *)
C4_Witness ==
  /\ Returned("move", "false")
  /\ call.id \in nodes /\ call.arg \in nodes
  /\ parent[call.arg] # None /\ parent[call.arg] # call.id
  /\ parent[parent[call.arg]] = call.id

(* C5: the root has depth 0 and every other stored node is one deeper than *)
(* its parent.                                                             *)
C5_DepthConsistent ==
  /\ nodes # {} => depth[root] = 0
  /\ \A n \in nodes : parent[n] # None => depth[n] = depth[parent[n]] + 1

(* a node with a child has just been moved to a parent at another depth *)
C5_Witness ==
  /\ Returned("move", "true")
  /\ children[call.id] # <<>>
  /\ depth[call.id] >= 2
  /\ depth[children[call.id][1]] = depth[call.id] + 1

(* C6: every children list is strictly ascending by name, and add and move *)
(* return false when the destination parent already has a child with the   *)
(* same name.                                                              *)
HasChildNamed(p, nm) == \E i \in 1..Len(children[p]) : name[children[p][i]] = nm

SiblingsSorted ==
  \A p \in nodes : \A i \in 1..(Len(children[p]) - 1) :
     name[children[p][i]] < name[children[p][i + 1]]

C6_SiblingNames ==
  /\ []SiblingsSorted
  /\ [][/\ \A nm \in Names :
             (Add(call'.id, nm, call'.arg) /\ call'.arg \in nodes
                /\ HasChildNamed(call'.arg, nm)) => ret' = "false"
        /\ (call'.op = "move" /\ call'.id \in nodes /\ call'.arg \in nodes
              /\ HasChildNamed(call'.arg, name[call'.id])) => ret' = "false"]_vars

(* a node has just been added whose name is already in use under another   *)
(* parent                                                                  *)
C6_Witness ==
  /\ Returned("add", "true")
  /\ \E m \in nodes \ {call.id} :
        name[m] = name[call.id] /\ parent[m] \notin {None, parent[call.id]}
  /\ Len(children[parent[call.id]]) >= 2

(* C7: at most one stored node has no parent; add without a parent returns *)
(* false when the store holds a node; add with a stored id returns false.  *)
C7_SingleRoot ==
  /\ [](Cardinality({n \in nodes : parent[n] = None}) <= 1)
  /\ [][(call'.op = "add" /\ (call'.id \in nodes \/ (call'.arg = None /\ nodes # {})))
          => ret' = "false"]_vars

(* a second root, under an unused id, has just been refused *)
C7_Witness ==
  /\ Returned("add", "false")
  /\ call.arg = None
  /\ call.id \notin nodes
  /\ nodes # {}

(* C8: _preorder holds every key of the id index exactly once and nothing  *)
(* else.                                                                   *)
C8_PreorderIsPermutation ==
  /\ Len(preorder) = Cardinality(nodes)
  /\ Range(preorder) = nodes

(* C9: deleting the root succeeds only when it is the only node, leaves    *)
(* the index, the root reference and _preorder empty, and the root         *)
(* reference is set exactly when the store holds a node.                   *)
C9_RootIffNonEmpty ==
  /\ [](root # None <=> nodes # {})
  /\ [][(call'.op = "delete" /\ call'.id \in nodes /\ parent[call'.id] = None)
          => IF nodes = {call'.id}
             THEN ret' = "true" /\ nodes' = {} /\ root' = None /\ preorder' = <<>>
             ELSE ret' = "false"]_vars

(* C10: delete of a non-root node returns false when it has a child; for a *)
(* leaf it returns true and removes exactly that id from the index, from   *)
(* its parent's children and from _preorder, and changes nothing else.     *)
C10_DeleteFrame ==
  [][(call'.op = "delete" /\ call'.id \in nodes /\ parent[call'.id] # None)
       => LET nid == call'.id
              p == parent[nid]
          IN  IF children[nid] # <<>>
              THEN ret' = "false"
              ELSE /\ ret' = "true"
                   /\ nodes' = nodes \ {nid}
                   /\ root' = root
                   /\ preorder' = Without(preorder, nid)
                   /\ children'[p] = Without(children[p], nid)
                   /\ children_by_id'[p] = children_by_id[p] \ {nid}
                   /\ \A m \in nodes \ {nid} :
                        /\ parent'[m] = parent[m]
                        /\ depth'[m] = depth[m]
                        /\ name'[m] = name[m]
                        /\ m # p => children'[m] = children[m]]_vars

----------------------------------------------------------------------------
(* Reference definitions for the query properties.                         *)

(* the ids of the records written by the last query *)
OutIds == [i \in 1..Len(out) |-> out[i].id]

(* n lies in the depth window of a query rooted at rt; a zero max_depth    *)
(* sets no upper bound                                                     *)
InRelWindow(n, rt, min_depth, max_depth) ==
  /\ min_depth + depth[rt] <= depth[n]
  /\ max_depth = 0 \/ depth[n] <= max_depth + depth[rt]

(* the walk of the live tree from rt, restricted to the depth window *)
WindowedWalk(rt, min_depth, max_depth) ==
  SelectSeq(Walk(rt), LAMBDA n : InRelWindow(n, rt, min_depth, max_depth))

(* the last line was a query in the roots branch *)
RootsQuery == call.op = "query" /\ call.ids = <<>> /\ call.names = <<>>

(* no id of lst is stored *)
NoneKnown(lst) == \A i \in 1..Len(lst) : lst[i] \notin nodes

(* the last line was a roots query on a non-empty store that listed only   *)
(* ids that are not stored                                                 *)
OnlyUnknownRoots ==
  RootsQuery /\ call.roots # <<>> /\ nodes # {} /\ NoneKnown(call.roots)

----------------------------------------------------------------------------
(* C11 as stated: a roots query that lists only unknown ids on a non-empty *)
(* store returns the whole tree from the global root, filtered by the      *)
(* depth window, in pre-order.                                             *)
C11_UnknownRootsGiveWholeTree ==
  OnlyUnknownRoots =>
    /\ ret = "nodes"
    /\ OutIds = WindowedWalk(root, call.min_depth, call.max_depth)

(* C11, amended: a roots query that lists only unknown ids on a non-empty  *)
(* store returns the empty list, for every depth window.                   *)
C11_UnknownRootsGiveNothing ==
  /\ OnlyUnknownRoots => ret = "nodes" /\ out = <<>>
  /\ \A roots \in IdLists \ {<<>>}, mn \in DepthArgs, mx \in DepthArgs :
       (nodes # {} /\ NoneKnown(roots)) =>
          query(store, <<>>, <<>>, roots, mn, mx) = QueryResult("nodes", <<>>)

(* a roots query with an open depth window listed only unknown ids while   *)
(* two nodes were stored, and returned nothing                             *)
C11_Witness ==
  /\ OnlyUnknownRoots
  /\ call.min_depth = 0 /\ call.max_depth = 0
  /\ Cardinality(nodes) >= 2
  /\ ret = "nodes" /\ out = <<>>

----------------------------------------------------------------------------
(* the stored nodes of the cached list whose id is in ids and, when names  *)
(* is not empty, whose name is in names, each once                         *)
Selected(ids, names) ==
  Uniq(SelectSeq(preorder, LAMBDA n :
         /\ n \in nodes
         /\ InList(ids, n)
         /\ names = <<>> \/ InList(names, name[n])))

(* C12: a query with a non-empty ids list returns exactly the stored nodes *)
(* whose id is in ids (and whose name is in names, when names is given),   *)
(* each once, in cached pre-order, whatever roots, min_depth and max_depth *)
(* are.                                                                    *)
C12_IdsIgnoreRootsAndDepths ==
  (call.op = "query" /\ call.ids # <<>>) =>
    /\ ret = "nodes"
    /\ OutIds = Selected(call.ids, call.names)

----------------------------------------------------------------------------
(* C13 as stated: a roots query with 0 <= max_depth < min_depth returns    *)
(* the empty list.                                                         *)
C13_EmptyWhenMaxBelowMin ==
  (RootsQuery /\ 0 <= call.max_depth /\ call.max_depth < call.min_depth) =>
    ret = "nodes" /\ out = <<>>

(* C13, amended: a roots query with 1 <= max_depth < min_depth returns the *)
(* empty list, for every roots list and every store.                       *)
C13_EmptyWhenPositiveMaxBelowMin ==
  /\ (RootsQuery /\ 1 <= call.max_depth /\ call.max_depth < call.min_depth) =>
        ret = "nodes" /\ out = <<>>
  /\ \A roots \in IdLists, mn \in DepthArgs, mx \in DepthArgs :
       (1 <= mx /\ mx < mn) =>
          query(store, <<>>, <<>>, roots, mn, mx) = QueryResult("nodes", <<>>)

(* a roots query with 1 <= max_depth < min_depth returned nothing from a   *)
(* store whose root has a child                                            *)
C13_Witness ==
  /\ RootsQuery
  /\ 1 <= call.max_depth /\ call.max_depth < call.min_depth
  /\ \E n \in nodes : parent[n] = root /\ root \in nodes
  /\ ret = "nodes" /\ out = <<>>

----------------------------------------------------------------------------
RECURSIVE SubtreesFrom(_, _, _, _)
(* the windowed walks of the stored nodes among rts[i..], one after the    *)
(* other                                                                   *)
SubtreesFrom(rts, i, min_depth, max_depth) ==
  IF i > Len(rts) THEN <<>>
  ELSE (IF rts[i] \in nodes THEN WindowedWalk(rts[i], min_depth, max_depth)
        ELSE <<>>)
       \o SubtreesFrom(rts, i + 1, min_depth, max_depth)

(* C14: after any sequence of add, delete and move, a roots query returns, *)
(* for each known id of roots in caller order with repeats dropped, the    *)
(* nodes of that node's subtree in the live tree that lie in the depth     *)
(* window relative to it, in pre-order, and concatenates these lists in    *)
(* caller order.                                                           *)
C14_RootsQueryGivesSubtrees ==
  \A roots \in IdLists \ {<<>>}, mn \in DepthArgs, mx \in DepthArgs :
     LET r == Storage_query(store, <<>>, <<>>, roots, mn, mx)
     IN  /\ r.ret = "nodes"
         /\ r.nodes = SubtreesFrom(Uniq(roots), 1, mn, mx)

----------------------------------------------------------------------------
(* the record query writes for node x added with name nm under p *)
RecordOf(x, nm, p) ==
  [id |-> x, name |-> nm, parent_id |-> IF p # None THEN p ELSE ""]

(* C15: in any reachable state of a live process, right after a successful *)
(* add of x with name nm under p (or as root), query(ids=[x]) returns      *)
(* exactly one record: id x, name nm, parent_id p (the empty string for    *)
(* the root).                                                              *)
C15_AddThenQueryById ==
  ret # "error" =>
    \A x \in nodes \cup FreshIds, nm \in Names, p \in Ids \cup {None} :
       LET added == Storage_add(store, x, nm, p)
           r == query(added.st, <<x>>, <<>>, <<>>, 0, 0)
       IN  added.ret = "true" =>
             /\ r.ret = "nodes"
             /\ Len(r.nodes) = 1
             /\ r.nodes[1].id = x /\ r.nodes[1].name = nm
             /\ r.nodes[1] = RecordOf(x, nm, p)

----------------------------------------------------------------------------
(* the operations a request line can run on the store *)
StoreOps == {"add", "delete", "move", "query"}

(* C16: the loop ends at end-of-input only: no line that runs an operation *)
(* on the store ends the process, and a malformed line is skipped with the *)
(* store unchanged and the process still alive.                            *)
C16_OnlyEndOfInputEnds ==
  /\ [](call.op \in StoreOps => ret # "error")
  /\ [][call'.op = "malformed" => (ret' # "error" /\ UNCHANGED StoreVars)]_vars

----------------------------------------------------------------------------
(* Reference definitions for the move properties, over a given tree.       *)

RECURSIVE LastOf(_, _)
(* the last node of the walk from n in the tree with children lists ch *)
LastOf(ch, n) == IF ch[n] = <<>> THEN n ELSE LastOf(ch, ch[n][Len(ch[n])])

(* the node just before t in the walk of the tree with children lists ch   *)
(* and parent links par, for t other than the root                         *)
PredecessorIn(ch, par, t) ==
  LET sibs == ch[par[t]]
      k == CHOOSE j \in 1..Len(sibs) : sibs[j] = t
  IN  IF k = 1 THEN par[t] ELSE LastOf(ch, sibs[k - 1])

(* s with the block blk put right after the first occurrence of x *)
PutAfter(s, x, blk) ==
  LET k == CHOOSE j \in 1..Len(s) : s[j] = x /\ \A h \in 1..(j - 1) : s[h] # x
  IN  SubSeq(s, 1, k) \o blk \o SubSeq(s, k + 1, Len(s))

(* the last call was a successful move of a node that had no children *)
LeafMoved == call'.op = "move" /\ ret' = "true" /\ children[call'.id] = <<>>

(* C17: a successful move of a leaf takes the target's id out of _preorder *)
(* and puts it back right after the id of the target's pre-order           *)
(* predecessor in the re-parented tree, leaving the order of all other ids *)
(* as it was, wherever the predecessor lies.                               *)
C17_LeafMoveResplice ==
  [][LeafMoved =>
       LET t == call'.id
           rest == Without(preorder, t)
           pred == PredecessorIn(children', parent', t)
       IN  /\ pred \in Range(rest)
           /\ preorder' = PutAfter(rest, pred, <<t>>)]_vars

----------------------------------------------------------------------------
(* the last call was a successful move of a node that had children *)
NonLeafMoved == call'.op = "move" /\ ret' = "true" /\ children[call'.id] # <<>>

(* on the cached list, swapping the adjacent spans [a, b) and [b, c) gives *)
(* prefix + second span + first span + suffix, in both rotation branches   *)
RotateIsSwap ==
  \A a \in 0..Len(preorder), b \in 0..Len(preorder), c \in 0..Len(preorder) :
     (a <= b /\ b <= c) =>
        Rotate(preorder, a, b, c) =
          Slice(preorder, 0, a) \o Slice(preorder, b, c) \o Slice(preorder, a, b)
            \o Slice(preorder, c, Len(preorder))

(* the block of the target and its descendants goes right after the        *)
(* target's new predecessor; the order inside and outside the block stays  *)
BlockRelocated ==
  LET t == call'.id
      block == SelectSeq(preorder, LAMBDA n : n \in Subtree(t))
      rest == SelectSeq(preorder, LAMBDA n : n \notin Subtree(t))
      pred == PredecessorIn(children', parent', t)
  IN  /\ pred \in Range(rest)
      /\ preorder' = PutAfter(rest, pred, block)

(* C18: a successful move of a non-leaf node (its new position lies        *)
(* strictly before or strictly after its old block) puts the whole block   *)
(* of the target and its descendants right after the target's new          *)
(* pre-order predecessor, keeps the order inside the block and the order   *)
(* of the ids outside it, and both rotation branches give prefix + second  *)
(* span + first span + suffix.                                             *)
C18_BlockMoveResplice ==
  /\ []RotateIsSwap
  /\ [][NonLeafMoved => BlockRelocated]_vars

----------------------------------------------------------------------------
(* how often x occurs in s *)
Occurrences(s, x) == Cardinality({i \in 1..Len(s) : s[i] = x})

(* C19: in every reachable state with a non-empty store the ids of the     *)
(* index are exactly the nodes reachable from the root through children    *)
(* lists, each stored non-root node is exactly once in the children list   *)
(* of the node its parent link names, and each node's _children_by_id      *)
(* holds exactly the ids of its children list.                             *)
C19_IndexMatchesTree ==
  nodes # {} =>
    /\ root \in nodes
    /\ nodes = Subtree(root)
    /\ \A n \in nodes :
         /\ n # root =>
              /\ parent[n] \in nodes
              /\ Occurrences(children[parent[n]], n) = 1
         /\ children_by_id[n] = Range(children[n])

(* a node with children has just been moved under a parent that already    *)
(* had a child, in a store of five nodes                                   *)
C19_Witness ==
  /\ Returned("move", "true")
  /\ children[call.id] # <<>>
  /\ Len(children[call.arg]) >= 2
  /\ Cardinality(nodes) = 5
----------------------------------------------------------------------------
(* p has no child named nm in the store S *)
NameFree(S, p, nm) ==
  \A i \in 1..Len(S.children[p]) : S.name[S.children[p][i]] # nm

(* add(x, nx, p) then add(y, ny, p), from the store S *)
AddBoth(S, x, nx, y, ny, p) ==
  LET first == Storage_add(S, x, nx, p)
      second == Storage_add(first.st, y, ny, p)
  IN  [ok |-> first.ret = "true" /\ second.ret = "true", st |-> second.st]

(* both orders of the two adds succeed and end in the same store *)
Commute(S, x, nx, y, ny, p) ==
  LET xy == AddBoth(S, x, nx, y, ny, p)
      yx == AddBoth(S, y, ny, x, nx, p)
  IN  xy.ok /\ yx.ok /\ xy.st = yx.st

(* from the store S, every two adds of new nodes with distinct ids and     *)
(* distinct names, which no child of p bears yet, commute                  *)
SiblingAddsCommuteIn(S) ==
  \A p \in S.nodes, x \in Ids \ S.nodes, y \in Ids \ S.nodes :
     x < y =>
       \A nx \in Names, ny \in Names :
          (nx # ny /\ NameFree(S, p, nx) /\ NameFree(S, p, ny))
             => Commute(S, x, nx, y, ny, p)

(* C20: for a stored parent p and two nodes x, y that are not stored, with *)
(* distinct ids and distinct names (new among p's children), add(x, p);    *)
(* add(y, p) and add(y, p); add(x, p) both succeed and end in the same     *)
(* state.  Stated for the current store of a live process and for the      *)
(* store any one further delete leaves.                                    *)
C20_SiblingAddsCommute ==
  ret # "error" =>
    /\ SiblingAddsCommuteIn(store)
    /\ \A d \in nodes :
         LET deleted == Storage_delete(store, d)
         IN  deleted.ret = "true" => SiblingAddsCommuteIn(deleted.st)

============================================================================
